---- MODULE Spec2Model ----
(***************************************************************************)
(* A model of source/main.cpp of the OpenGL model viewer: main (set-up,    *)
(* render loop, tear-down), ProcessInput (the orbit camera), LoadObjFile   *)
(* (the OBJ loader) and CalculateCameraPosition.                           *)
(*                                                                         *)
(* Units.  The floats of the camera are fixed-point integers: a distance   *)
(* is in 1/1000 of a unit, an angle in milliradians, a frame time in       *)
(* milliseconds, so that speed * deltaTime is an exact product.  Rounding  *)
(* of IEEE floats is not modelled.                                         *)
(***************************************************************************)
EXTENDS Integers, Sequences, FiniteSets, TLC

VARIABLES
    \* main
    pc,                        \* the statement of main that runs next
    glfw,                      \* the GLFW library: "none", "live", "terminated"
    windowHandle,              \* the window and its context
    vao, vbo,                  \* vertex array, vertex buffer
    vertexShader, fragmentShader, shaderProgram,
    shouldClose,               \* the window's should-close flag
    mainVertices,              \* main's vertices (the result of LoadObjFile)
    cameraDistanceFromTarget, cameraAzimuth, cameraElevation,
    keys, deltaTime,           \* the keys held and the frame time ProcessInput last saw
    exception,                 \* what() of the exception that left main, "" for none
    frame,                     \* the latest frame: "none", "started", "drawn", "presented"
    glLog,                     \* the destroy calls made so far, in order
    \* LoadObjFile
    lines,                     \* the lines getline has returned so far
    positions, normals, vertices,
    lstatus,                   \* "init", "reading", "done", or how the call failed
    \* CalculateCameraPosition
    cpc, argDistance, argAzimuth, argElevation, argTarget, cameraPos

mainVars == <<pc, glfw, windowHandle, vao, vbo, vertexShader, fragmentShader,
              shaderProgram, shouldClose, mainVertices, cameraDistanceFromTarget,
              cameraAzimuth, cameraElevation, keys, deltaTime, exception, frame,
              glLog>>
loaderVars == <<lines, positions, normals, vertices, lstatus>>
calcVars == <<cpc, argDistance, argAzimuth, argElevation, argTarget, cameraPos>>
vars == <<mainVars, loaderVars, calcVars>>

(***************************************************************************)
(* LoadObjFile: strings.  A face token is a sequence of one-character      *)
(* strings; a line is its first word (prefix) and what follows it: three   *)
(* numbers (vec, read by a v or vn line) or words (args, read by an f line).*)
(***************************************************************************)

DigitChars == <<"0", "1", "2", "3", "4", "5", "6", "7", "8", "9">>

IsDigit(c) == \E d \in 1..10 : DigitChars[d] = c

DigitVal(c) == (CHOOSE d \in 1..10 : DigitChars[d] = c) - 1

\* std::string::npos; npos + 2 wraps around to 1 in size_t arithmetic.
NPOS == -1

\* vertex.find("//"): the 0-based index of the first "//", or npos.
Find(s) ==
    LET hits == {i \in 1..(Len(s) - 1) : s[i] = "/" /\ s[i + 1] = "/"}
    IN  IF hits = {} THEN NPOS
        ELSE (CHOOSE i \in hits : \A j \in hits : i <= j) - 1

\* vertex.substr(0, count): the first count characters, all of them for npos.
SubstrTo(s, count) ==
    IF count = NPOS \/ count >= Len(s) THEN s ELSE SubSeq(s, 1, count)

\* separatorIndex + 2 as a std::size_t.
SeparatorPlus2(separatorIndex) ==
    IF separatorIndex = NPOS THEN 1 ELSE separatorIndex + 2

\* vertex.substr(pos): throws std::out_of_range when pos > size().
SubstrFrom(s, pos) ==
    IF pos > Len(s) THEN [err |-> "out_of_range", str |-> <<>>]
    ELSE [err |-> "none", str |-> SubSeq(s, pos + 1, Len(s))]

\* The longest run of digits s starts with, as a number.
RECURSIVE DigitsValue(_, _, _)
DigitsValue(s, i, acc) ==
    IF i <= Len(s) /\ IsDigit(s[i])
    THEN DigitsValue(s, i + 1, acc * 10 + DigitVal(s[i]))
    ELSE acc

\* std::stoi(s): an optional sign, then digits up to the first character that
\* is no digit; std::invalid_argument when there is no digit. (Tokens here
\* have at most three digits: the overflow of int is out of reach.)
Stoi(s) ==
    LET signed == Len(s) >= 1 /\ s[1] \in {"+", "-"}
        first  == IF signed THEN 2 ELSE 1
        mag    == DigitsValue(s, first, 0)
    IN  IF first > Len(s) \/ ~IsDigit(s[first])
        THEN [err |-> "invalid_argument", val |-> 0]
        ELSE [err |-> "none",
              val |-> IF signed /\ s[1] = "-" THEN 0 - mag ELSE mag]

\* ParseFaceToken with the 1-based indices of the file used as they are.
ParseFaceToken_OneBased(vertex) ==
    LET separatorIndex == Find(vertex)
        p    == Stoi(SubstrTo(vertex, separatorIndex))
        rest == SubstrFrom(vertex, SeparatorPlus2(separatorIndex))
        n    == Stoi(rest.str)
    IN  IF p.err # "none" THEN [err |-> p.err, positionIndex |-> 0, normalIndex |-> 0]
        ELSE IF rest.err # "none"
             THEN [err |-> rest.err, positionIndex |-> 0, normalIndex |-> 0]
        ELSE IF n.err # "none" THEN [err |-> n.err, positionIndex |-> 0, normalIndex |-> 0]
        ELSE [err |-> "none", positionIndex |-> p.val, normalIndex |-> n.val]

\* Lines 357-360: the two indices of one face token, or the exception thrown.
ParseFaceToken(vertex) ==
    LET separatorIndex == Find(vertex)
        p    == Stoi(SubstrTo(vertex, separatorIndex))
        rest == SubstrFrom(vertex, SeparatorPlus2(separatorIndex))
        n    == Stoi(rest.str)
    IN  IF p.err # "none" THEN [err |-> p.err, positionIndex |-> 0, normalIndex |-> 0]
        ELSE IF rest.err # "none"
             THEN [err |-> rest.err, positionIndex |-> 0, normalIndex |-> 0]
        ELSE IF n.err # "none" THEN [err |-> n.err, positionIndex |-> 0, normalIndex |-> 0]
        ELSE [err |-> "none", positionIndex |-> p.val - 1, normalIndex |-> n.val - 1]

\* What an out-of-bounds std::vector::operator[] hands back when the process
\* survives it: a value that is no element of the vector.
GARBAGE == <<-1, -1, -1>>

\* positions[positionIndex]: the index is 0-based, the sequence 1-based.
ElementAt(vec, index) ==
    IF index >= 0 /\ index < Len(vec) THEN vec[index + 1] ELSE GARBAGE

\* Lines 355-363: the loop over the three tokens of an f line.  st is the
\* loader's state; the result is the set of states the loop can end in.  An
\* out-of-bounds operator[] is undefined behaviour: the process may die
\* ("ub_crash") or go on with a garbage element ("ub_garbage"); what follows
\* undefined behaviour is not followed further.
RECURSIVE FaceLoop(_, _, _)
FaceLoop(st, toks, i) ==
    IF i > 3 THEN {st}
    ELSE LET t == ParseFaceToken(toks[i])
             inBounds == /\ t.positionIndex >= 0 /\ t.positionIndex < Len(st.positions)
                         /\ t.normalIndex >= 0 /\ t.normalIndex < Len(st.normals)
             pushed == [st EXCEPT !.vertices =
                          Append(@, [position |-> ElementAt(st.positions, t.positionIndex),
                                     normal   |-> ElementAt(st.normals, t.normalIndex)])]
         IN  IF t.err # "none" THEN {[st EXCEPT !.lstatus = t.err]}
             ELSE IF ~inBounds
                  THEN {[st EXCEPT !.lstatus = "ub_crash"],
                        [pushed EXCEPT !.lstatus = "ub_garbage"]}
             ELSE FaceLoop(pushed, toks, i + 1)

\* lineStream >> vertex0 >> vertex1 >> vertex2: a missing word is left empty.
Word(args, i) == IF i <= Len(args) THEN args[i] ELSE <<>>

\* Lines 316-364: the body of the getline loop for one line.
ProcessLine(st, line) ==
    IF line.prefix = "" \/ line.prefix = "#" THEN {st}
    ELSE IF line.prefix = "v"
         THEN {[st EXCEPT !.positions = Append(@, <<line.vec[1], line.vec[2], line.vec[3]>>)]}
    ELSE IF line.prefix = "vn"
         THEN {[st EXCEPT !.normals = Append(@, <<line.vec[1], line.vec[2], line.vec[3]>>)]}
    ELSE IF line.prefix = "f"
         THEN FaceLoop(st, <<Word(line.args, 1), Word(line.args, 2), Word(line.args, 3)>>, 1)
    ELSE {st}

\* Lines 308-311: the loader's locals once the file is open.
LoaderStart == [positions |-> <<>>, normals |-> <<>>, vertices |-> <<>>,
                lstatus |-> "reading"]

\* Lines 314-369 for a whole file: the states LoadObjFile can end in.
RECURSIVE LoadObjFile(_, _, _)
LoadObjFile(st, file, i) ==
    IF st.lstatus # "reading" THEN {st}
    ELSE IF i > Len(file) THEN {[st EXCEPT !.lstatus = "done"]}
    ELSE UNION {LoadObjFile(s, file, i + 1) : s \in ProcessLine(st, file[i])}

(***************************************************************************)
(* LoadObjFile: the files it is run on.  Line n of a file is a v line      *)
(* "v n 0 0", a vn line "vn 0 n 0", an f line, or a line the loader skips  *)
(* (empty, a # comment, another directive): every v and vn line of a file  *)
(* is different from every other, so a vertex tells which lines it is      *)
(* from.                                                                   *)
(***************************************************************************)

\* The longest file read line by line (the example file apart).
MaxLines == 4

\* The largest index written in a face token (the example file apart).
MaxRef == 2

RECURSIVE Decimal(_)
Decimal(n) == IF n < 10 THEN <<DigitChars[n + 1]>>
              ELSE Decimal(n \div 10) \o <<DigitChars[(n % 10) + 1]>>

\* The face token "P//N".
FaceToken(P, N) == Decimal(P) \o <<"/", "/">> \o Decimal(N)

\* The tokens with both indices from 1 on, and those with an index 0 as well.
InTokens == {FaceToken(P, N) : P \in 1..MaxRef, N \in 1..MaxRef}
RefTokens == {FaceToken(P, N) : P \in 0..MaxRef, N \in 0..MaxRef}

BaseToken == FaceToken(1, 1)

\* "1/1", "1", "1/1//1", "1/1/1", "1//1x", "1x//1", "x//1", "1//"
MalformedTokens ==
    { <<"1", "/", "1">>, <<"1">>, <<"1", "/", "1", "/", "/", "1">>,
      <<"1", "/", "1", "/", "1">>, <<"1", "/", "/", "1", "x">>,
      <<"1", "x", "/", "/", "1">>, <<"x", "/", "/", "1">>, <<"1", "/", "/">> }

\* The words after the f of an f line: two free references and the base token,
\* one free reference (index 0 too) or one malformed token in each place, fewer
\* than three words, more than three.
FaceArgs ==
    {<<a, b, BaseToken>> : a \in InTokens, b \in InTokens}
    \cup {<<c, BaseToken, BaseToken>> : c \in RefTokens}
    \cup {<<BaseToken, c, BaseToken>> : c \in RefTokens}
    \cup {<<BaseToken, BaseToken, c>> : c \in RefTokens}
    \cup {<<m, BaseToken, BaseToken>> : m \in MalformedTokens}
    \cup {<<BaseToken, m, BaseToken>> : m \in MalformedTokens}
    \cup {<<BaseToken, BaseToken, m>> : m \in MalformedTokens}
    \cup { <<>>, <<BaseToken>>, <<BaseToken, BaseToken>>,
           <<BaseToken, BaseToken, BaseToken, BaseToken>>,
           <<BaseToken, BaseToken, BaseToken, <<"1", "/", "1">> >> }

VLine(n)  == [prefix |-> "v",  vec |-> <<n, 0, 0>>, args |-> <<>>]
VnLine(n) == [prefix |-> "vn", vec |-> <<0, n, 0>>, args |-> <<>>]
FLine(a)  == [prefix |-> "f",  vec |-> <<0, 0, 0>>, args |-> a]
SkipLine(w) == [prefix |-> w, vec |-> <<0, 0, 0>>, args |-> <<>>]

\* The lines that can stand at line n of a file.
LinesAt(n) ==
    { SkipLine(""), SkipLine("#"), SkipLine("vt"), VLine(n), VnLine(n) }
    \cup {FLine(a) : a \in FaceArgs}

\* The file of the spec's example: 4 v lines, 4 vn lines, 4 triangular f lines.
ExampleFile ==
    << VLine(1), VLine(2), VLine(3), VLine(4),
       VnLine(5), VnLine(6), VnLine(7), VnLine(8),
       FLine(<<FaceToken(1, 1), FaceToken(2, 1), FaceToken(3, 1)>>),
       FLine(<<FaceToken(1, 2), FaceToken(3, 2), FaceToken(4, 2)>>),
       FLine(<<FaceToken(1, 3), FaceToken(4, 3), FaceToken(2, 3)>>),
       FLine(<<FaceToken(2, 4), FaceToken(4, 4), FaceToken(3, 4)>>) >>

\* Whether the lines read so far begin the example file, with more to come.
InExampleFile ==
    /\ Len(lines) < Len(ExampleFile)
    /\ lines = SubSeq(ExampleFile, 1, Len(lines))

(***************************************************************************)
(* LoadObjFile as a state machine: open, one getline at a time, return.    *)
(***************************************************************************)

LoaderInit ==
    /\ lines = <<>>
    /\ positions = <<>>
    /\ normals = <<>>
    /\ vertices = <<>>
    /\ lstatus = "init"

\* Lines 302-311: the file opens.
OpenFile ==
    /\ lstatus = "init"
    /\ lstatus' = "reading"
    /\ UNCHANGED <<lines, positions, normals, vertices, mainVars, calcVars>>

\* Lines 303-306: the file does not open, std::runtime_error.
OpenFails ==
    /\ lstatus = "init"
    /\ lstatus' = "open_failed"
    /\ UNCHANGED <<lines, positions, normals, vertices, mainVars, calcVars>>

\* Lines 314-365: getline returns the next line and the loop body runs.
ReadLine ==
    /\ lstatus = "reading"
    /\ \E line \in LinesAt(Len(lines) + 1) \cup {ExampleFile[n] : n \in 1..Len(ExampleFile)} :
         /\ \/ Len(lines) < MaxLines /\ line \in LinesAt(Len(lines) + 1)
            \/ InExampleFile /\ line = ExampleFile[Len(lines) + 1]
         /\ \E st \in ProcessLine([positions |-> positions, normals |-> normals,
                                   vertices |-> vertices, lstatus |-> lstatus], line) :
              /\ lines' = Append(lines, line)
              /\ positions' = st.positions
              /\ normals' = st.normals
              /\ vertices' = st.vertices
              /\ lstatus' = st.lstatus
    /\ UNCHANGED <<mainVars, calcVars>>

\* Lines 314, 367-369: getline finds the end of the file; the vertices are returned.
EndOfFile ==
    /\ lstatus = "reading"
    /\ lstatus' = "done"
    /\ UNCHANGED <<lines, positions, normals, vertices, mainVars, calcVars>>

LoaderNext == OpenFile \/ OpenFails \/ ReadLine \/ EndOfFile

(***************************************************************************)
(* ProcessInput, lines 232-287.                                            *)
(***************************************************************************)

Keys == {"ESCAPE", "A", "D", "W", "S", "Q", "E"}

cameraRotationSpeed == 2
cameraZoomSpeed == 5

\* 0.5f and 20.0f in 1/1000; glm::radians(89.0f) = 1.5533 in milliradians.
MinDistance == 500
MaxDistance == 20000
Radians89 == 1553

\* ShouldCloseAfter with Escape not looked at.
ShouldCloseAfter_EscapeIgnored(flag, held) == flag

\* Lines 234-237.
ShouldCloseAfter(flag, held) == flag \/ "ESCAPE" \in held

\* Lines 243-250.
AzimuthAfter(azimuth, held, dt) ==
    LET afterA == IF "A" \in held THEN azimuth - cameraRotationSpeed * dt ELSE azimuth
    IN  IF "D" \in held THEN afterA + cameraRotationSpeed * dt ELSE afterA

\* DistanceAfter without the clamp of S at 20.0.
DistanceAfter_NoUpperClamp(distanceFromTarget, held, dt) ==
    LET moved  == distanceFromTarget - cameraZoomSpeed * dt
        afterW == IF "W" \in held
                  THEN (IF moved < MinDistance THEN MinDistance ELSE moved)
                  ELSE distanceFromTarget
    IN  IF "S" \in held THEN afterW + cameraZoomSpeed * dt ELSE afterW

\* DistanceAfter with S handled before W.
DistanceAfter_SBeforeW(distanceFromTarget, held, dt) ==
    LET moved  == distanceFromTarget + cameraZoomSpeed * dt
        afterS == IF "S" \in held
                  THEN (IF moved > MaxDistance THEN MaxDistance ELSE moved)
                  ELSE distanceFromTarget
        back   == afterS - cameraZoomSpeed * dt
    IN  IF "W" \in held
        THEN (IF back < MinDistance THEN MinDistance ELSE back)
        ELSE afterS

\* Lines 253-268: W with its clamp, then S with its clamp.
DistanceAfter(distanceFromTarget, held, dt) ==
    LET moved  == distanceFromTarget - cameraZoomSpeed * dt
        afterW == IF "W" \in held
                  THEN (IF moved < MinDistance THEN MinDistance ELSE moved)
                  ELSE distanceFromTarget
        back   == afterW + cameraZoomSpeed * dt
    IN  IF "S" \in held
        THEN (IF back > MaxDistance THEN MaxDistance ELSE back)
        ELSE afterW

\* ElevationAfter without the clamp of E at -89 degrees.
ElevationAfter_NoLowerClamp(elevation, held, dt) ==
    LET up     == elevation + cameraRotationSpeed * dt
        afterQ == IF "Q" \in held
                  THEN (IF up > Radians89 THEN Radians89 ELSE up)
                  ELSE elevation
    IN  IF "E" \in held THEN afterQ - cameraRotationSpeed * dt ELSE afterQ

\* Lines 271-286: Q with its clamp, then E with its clamp.
ElevationAfter(elevation, held, dt) ==
    LET up     == elevation + cameraRotationSpeed * dt
        afterQ == IF "Q" \in held
                  THEN (IF up > Radians89 THEN Radians89 ELSE up)
                  ELSE elevation
        down   == afterQ - cameraRotationSpeed * dt
    IN  IF "E" \in held
        THEN (IF down < 0 - Radians89 THEN 0 - Radians89 ELSE down)
        ELSE afterQ

(***************************************************************************)
(* main, lines 31-225.  A GL or GLFW object is "none" before it is         *)
(* created, then "live"; a shader deleted while attached to a program is   *)
(* "flagged" until the program goes; "deleted", "destroyed" and            *)
(* "terminated" are the ends.  An exception that leaves main is not         *)
(* caught: the process ends there (pc = "threw").                          *)
(***************************************************************************)

\* The frame times of the model, in milliseconds: none, a short frame, a
\* frame long enough to cross every clamp in one step.
ShortFrame == 500
LongFrame == 5000
FrameTimes == {0, ShortFrame, LongFrame}

\* The azimuth is not clamped by the code; the model follows it for this
\* many short frames' worth of turning, either way.
MaxTurns == 1
MaxAzimuth == MaxTurns * cameraRotationSpeed * ShortFrame

\* Lines 166-168.
InitialDistance == 5000
InitialAzimuth == 0
InitialElevation == 0

\* What ../assets/pyramid.obj may hold: the example file, or a file whose f
\* line lacks its third token.
MainFiles == { ExampleFile,
               <<VLine(1), VnLine(2), FLine(<<BaseToken, BaseToken>>)>> }

\* The ways LoadObjFile("../assets/pyramid.obj") can end once the file is open.
MainLoads == UNION {LoadObjFile(LoaderStart, file, 1) : file \in MainFiles}

MainInit ==
    /\ pc = "glfwInit"
    /\ glfw = "none"
    /\ windowHandle = "none"
    /\ vao = "none"
    /\ vbo = "none"
    /\ vertexShader = "none"
    /\ fragmentShader = "none"
    /\ shaderProgram = "none"
    /\ shouldClose = FALSE
    /\ mainVertices = <<>>
    /\ cameraDistanceFromTarget = InitialDistance
    /\ cameraAzimuth = InitialAzimuth
    /\ cameraElevation = InitialElevation
    /\ keys = {}
    /\ deltaTime = 0
    /\ exception = ""
    /\ frame = "none"
    /\ glLog = <<>>

glObjects == <<vao, vbo, vertexShader, fragmentShader, shaderProgram>>
camera == <<cameraDistanceFromTarget, cameraAzimuth, cameraElevation, keys, deltaTime>>

\* Line 33: glfwInit succeeds.
GlfwInitOk ==
    /\ pc = "glfwInit"
    /\ glfw' = "live"
    /\ pc' = "createWindow"
    /\ UNCHANGED <<windowHandle, glObjects, shouldClose, mainVertices, camera,
                   exception, frame, glLog,
                   loaderVars, calcVars>>

\* Lines 33-36: glfwInit fails.
GlfwInitFails ==
    /\ pc = "glfwInit"
    /\ exception' = "Failed to intialize GLFW"
    /\ pc' = "threw"
    /\ UNCHANGED <<glfw, windowHandle, glObjects, shouldClose, mainVertices, camera,
                   frame, glLog,
                   loaderVars, calcVars>>

\* Lines 38-49: the window is created.
CreateWindowOk ==
    /\ pc = "createWindow"
    /\ windowHandle' = "live"
    /\ pc' = "loadGL"
    /\ UNCHANGED <<glfw, glObjects, shouldClose, mainVertices, camera, exception,
                   frame, glLog,
                   loaderVars, calcVars>>

\* Lines 49-55: glfwCreateWindow returns nullptr.
CreateWindowFails ==
    /\ pc = "createWindow"
    /\ glfw' = "terminated"
    /\ glLog' = Append(glLog, "glfwTerminate")
    /\ exception' = "failed to create GLFW window"
    /\ pc' = "threw"
    /\ UNCHANGED <<windowHandle, glObjects, shouldClose, mainVertices, camera, frame,
                   loaderVars, calcVars>>

\* Lines 57-70: the GL functions load.
LoadGLOk ==
    /\ pc = "loadGL"
    /\ pc' = "loadObj"
    /\ UNCHANGED <<glfw, windowHandle, glObjects, shouldClose, mainVertices, camera,
                   exception, frame, glLog,
                   loaderVars, calcVars>>

\* Lines 61-68: gladLoadGLLoader fails.
LoadGLFails ==
    /\ pc = "loadGL"
    /\ shouldClose' = TRUE
    /\ windowHandle' = "destroyed"
    /\ glfw' = "terminated"
    /\ glLog' = glLog \o <<"glfwDestroyWindow", "glfwTerminate">>
    /\ exception' = "failed to initialize GLAD"
    /\ pc' = "threw"
    /\ UNCHANGED <<glObjects, mainVertices, camera, frame,
                   loaderVars, calcVars>>

\* Line 72: LoadObjFile returns the vertices of the file.
LoadObjOk ==
    /\ pc = "loadObj"
    /\ \E st \in MainLoads :
         /\ st.lstatus = "done"
         /\ mainVertices' = st.vertices
    /\ pc' = "createBuffers"
    /\ UNCHANGED <<glfw, windowHandle, glObjects, shouldClose, camera, exception,
                   frame, glLog,
                   loaderVars, calcVars>>

\* LoadObjThrows with the exception caught and main going on.
LoadObjThrows_Swallowed ==
    /\ pc = "loadObj"
    /\ \/ exception' = "Failed to open OBJ file"
       \/ \E st \in MainLoads :
            /\ st.lstatus \in {"invalid_argument", "out_of_range"}
            /\ exception' = st.lstatus
    /\ pc' = "createBuffers"
    /\ UNCHANGED <<glfw, windowHandle, glObjects, shouldClose, mainVertices, camera,
                   frame, glLog,
                   loaderVars, calcVars>>

\* Line 72: LoadObjFile throws (the file does not open, or std::stoi throws);
\* main has no handler.
LoadObjThrows ==
    /\ pc = "loadObj"
    /\ \/ exception' = "Failed to open OBJ file"
       \/ \E st \in MainLoads :
            /\ st.lstatus \in {"invalid_argument", "out_of_range"}
            /\ exception' = st.lstatus
    /\ pc' = "threw"
    /\ UNCHANGED <<glfw, windowHandle, glObjects, shouldClose, mainVertices, camera,
                   frame, glLog,
                   loaderVars, calcVars>>

\* Lines 74-91: the vertex array and the vertex buffer.
CreateBuffers ==
    /\ pc = "createBuffers"
    /\ vao' = "live"
    /\ vbo' = "live"
    /\ pc' = "compileVertexShader"
    /\ UNCHANGED <<glfw, windowHandle, vertexShader, fragmentShader, shaderProgram,
                   shouldClose, mainVertices, camera, exception, frame, glLog,
                   loaderVars, calcVars>>

\* Lines 129-133: the vertex shader compiles.
CompileVertexShaderOk ==
    /\ pc = "compileVertexShader"
    /\ vertexShader' = "live"
    /\ pc' = "compileFragmentShader"
    /\ UNCHANGED <<glfw, windowHandle, vao, vbo, fragmentShader, shaderProgram,
                   shouldClose, mainVertices, camera, exception, frame, glLog,
                   loaderVars, calcVars>>

\* Lines 129-138: it does not.
CompileVertexShaderFails ==
    /\ pc = "compileVertexShader"
    /\ vertexShader' = "live"
    /\ exception' = "vertex shader compilation failed"
    /\ pc' = "threw"
    /\ UNCHANGED <<glfw, windowHandle, vao, vbo, fragmentShader, shaderProgram,
                   shouldClose, mainVertices, camera, frame, glLog,
                   loaderVars, calcVars>>

\* Lines 140-144: the fragment shader compiles.
CompileFragmentShaderOk ==
    /\ pc = "compileFragmentShader"
    /\ fragmentShader' = "live"
    /\ pc' = "linkProgram"
    /\ UNCHANGED <<glfw, windowHandle, vao, vbo, vertexShader, shaderProgram,
                   shouldClose, mainVertices, camera, exception, frame, glLog,
                   loaderVars, calcVars>>

\* Lines 140-149: it does not.
CompileFragmentShaderFails ==
    /\ pc = "compileFragmentShader"
    /\ fragmentShader' = "live"
    /\ exception' = "fragment shader compilation failed"
    /\ pc' = "threw"
    /\ UNCHANGED <<glfw, windowHandle, vao, vbo, vertexShader, shaderProgram,
                   shouldClose, mainVertices, camera, frame, glLog,
                   loaderVars, calcVars>>

\* Lines 151-156: the program links.
LinkProgramOk ==
    /\ pc = "linkProgram"
    /\ shaderProgram' = "live"
    /\ pc' = "deleteShaders"
    /\ UNCHANGED <<glfw, windowHandle, vao, vbo, vertexShader, fragmentShader,
                   shouldClose, mainVertices, camera, exception, frame, glLog,
                   loaderVars, calcVars>>

\* Lines 151-161: it does not.
LinkProgramFails ==
    /\ pc = "linkProgram"
    /\ shaderProgram' = "live"
    /\ exception' = "shader program linking failed"
    /\ pc' = "threw"
    /\ UNCHANGED <<glfw, windowHandle, vao, vbo, vertexShader, fragmentShader,
                   shouldClose, mainVertices, camera, frame, glLog,
                   loaderVars, calcVars>>

\* Lines 163-183: glDeleteShader on the two attached shaders, which flags them
\* for deletion; the camera's initial values.
DeleteShaders ==
    /\ pc = "deleteShaders"
    /\ vertexShader' = "flagged"
    /\ fragmentShader' = "flagged"
    /\ cameraDistanceFromTarget' = InitialDistance
    /\ cameraAzimuth' = InitialAzimuth
    /\ cameraElevation' = InitialElevation
    /\ pc' = "loop"
    /\ UNCHANGED <<glfw, windowHandle, vao, vbo, shaderProgram, shouldClose,
                   mainVertices, keys, deltaTime, exception, frame, glLog,
                   loaderVars, calcVars>>

\* Line 185: the flag is clear, a frame starts.
LoopEnter ==
    /\ pc = "loop"
    /\ shouldClose = FALSE
    /\ frame' = "started"
    /\ pc' = "input"
    /\ UNCHANGED <<glfw, windowHandle, glObjects, shouldClose, mainVertices, camera,
                   exception, glLog,
                   loaderVars, calcVars>>

\* Line 185: the flag is set, the loop is left.
LoopExit ==
    /\ pc = "loop"
    /\ shouldClose = TRUE
    /\ pc' = "deleteVertexArrays"
    /\ UNCHANGED <<glfw, windowHandle, glObjects, shouldClose, mainVertices, camera,
                   exception, frame, glLog,
                   loaderVars, calcVars>>

\* Lines 187-191: the frame time, then ProcessInput with the keys held.
ProcessInput ==
    /\ pc = "input"
    /\ \E held \in SUBSET Keys, dt \in FrameTimes :
         /\ AzimuthAfter(cameraAzimuth, held, dt) \in (0 - MaxAzimuth)..MaxAzimuth
         /\ keys' = held
         /\ deltaTime' = dt
         /\ shouldClose' = ShouldCloseAfter(shouldClose, held)
         /\ cameraAzimuth' = AzimuthAfter(cameraAzimuth, held, dt)
         /\ cameraDistanceFromTarget' = DistanceAfter(cameraDistanceFromTarget, held, dt)
         /\ cameraElevation' = ElevationAfter(cameraElevation, held, dt)
    /\ pc' = "draw"
    /\ UNCHANGED <<glfw, windowHandle, glObjects, mainVertices, exception, frame, glLog,
                   loaderVars, calcVars>>

\* Lines 193-211: clear, set the matrices, glDrawArrays.
Draw ==
    /\ pc = "draw"
    /\ frame' = "drawn"
    /\ pc' = "present"
    /\ UNCHANGED <<glfw, windowHandle, glObjects, shouldClose, mainVertices, camera,
                   exception, glLog,
                   loaderVars, calcVars>>

\* Lines 213-214: glfwSwapBuffers, then glfwPollEvents, which sets the flag
\* when the user asked to close the window.  The iteration ends: deltaTime
\* goes out of scope, and the keys this frame saw are forgotten.
Present ==
    /\ pc = "present"
    /\ frame' = "presented"
    /\ \E closeRequested \in BOOLEAN : shouldClose' = (shouldClose \/ closeRequested)
    /\ keys' = {}
    /\ deltaTime' = 0
    /\ pc' = "loop"
    /\ UNCHANGED <<glfw, windowHandle, glObjects, mainVertices, cameraDistanceFromTarget,
                   cameraAzimuth, cameraElevation, exception, glLog,
                   loaderVars, calcVars>>

\* Line 217.
DeleteVertexArrays ==
    /\ pc = "deleteVertexArrays"
    /\ vao' = "deleted"
    /\ glLog' = Append(glLog, "glDeleteVertexArrays")
    /\ pc' = "deleteBuffers"
    /\ UNCHANGED <<glfw, windowHandle, vbo, vertexShader, fragmentShader, shaderProgram,
                   shouldClose, mainVertices, camera, exception, frame,
                   loaderVars, calcVars>>

\* Line 218.
DeleteBuffers ==
    /\ pc = "deleteBuffers"
    /\ vbo' = "deleted"
    /\ glLog' = Append(glLog, "glDeleteBuffers")
    /\ pc' = "deleteProgram"
    /\ UNCHANGED <<glfw, windowHandle, vao, vertexShader, fragmentShader, shaderProgram,
                   shouldClose, mainVertices, camera, exception, frame,
                   loaderVars, calcVars>>

\* Line 219: the program goes, and with it the shaders flagged for deletion.
DeleteProgram ==
    /\ pc = "deleteProgram"
    /\ shaderProgram' = "deleted"
    /\ vertexShader' = (IF vertexShader = "flagged" THEN "deleted" ELSE vertexShader)
    /\ fragmentShader' = (IF fragmentShader = "flagged" THEN "deleted" ELSE fragmentShader)
    /\ glLog' = Append(glLog, "glDeleteProgram")
    /\ pc' = "destroyWindow"
    /\ UNCHANGED <<glfw, windowHandle, vao, vbo, shouldClose, mainVertices, camera,
                   exception, frame,
                   loaderVars, calcVars>>

\* Line 221.
DestroyWindow ==
    /\ pc = "destroyWindow"
    /\ windowHandle' = "destroyed"
    /\ glLog' = Append(glLog, "glfwDestroyWindow")
    /\ pc' = "terminate"
    /\ UNCHANGED <<glfw, glObjects, shouldClose, mainVertices, camera, exception, frame,
                   loaderVars, calcVars>>

\* Lines 222-224.
Terminate ==
    /\ pc = "terminate"
    /\ glfw' = "terminated"
    /\ glLog' = Append(glLog, "glfwTerminate")
    /\ pc' = "exited"
    /\ UNCHANGED <<windowHandle, glObjects, shouldClose, mainVertices, camera,
                   exception, frame,
                   loaderVars, calcVars>>

MainNext ==
    \/ GlfwInitOk \/ GlfwInitFails
    \/ CreateWindowOk \/ CreateWindowFails
    \/ LoadGLOk \/ LoadGLFails
    \/ LoadObjOk \/ LoadObjThrows
    \/ CreateBuffers
    \/ CompileVertexShaderOk \/ CompileVertexShaderFails
    \/ CompileFragmentShaderOk \/ CompileFragmentShaderFails
    \/ LinkProgramOk \/ LinkProgramFails
    \/ DeleteShaders
    \/ LoopEnter \/ LoopExit
    \/ ProcessInput \/ Draw \/ Present
    \/ DeleteVertexArrays \/ DeleteBuffers \/ DeleteProgram
    \/ DestroyWindow \/ Terminate

(***************************************************************************)
(* CalculateCameraPosition, lines 289-298.  An angle is given by its sine  *)
(* and cosine, in 1/TrigScale: the angles of the model are those whose     *)
(* sine and cosine are both whole numbers of fifths (0, 36.87, 53.13, 90   *)
(* degrees and their mirror images), where std::sin and std::cos are       *)
(* exact.  The position returned, and the target, are in 1/25 of the       *)
(* distance's unit.                                                        *)
(***************************************************************************)

TrigScale == 5

Angles == {a \in [sin : (0 - TrigScale)..TrigScale, cos : (0 - TrigScale)..TrigScale] :
             a.sin * a.sin + a.cos * a.cos = TrigScale * TrigScale}

Sin(a) == a.sin
Cos(a) == a.cos

\* CalculateCameraPosition with the height taken from the cosine.
CalculateCameraPosition_CosY(distanceFromTarget, azimuth, elevation, target) ==
    LET x == distanceFromTarget * Cos(elevation) * Sin(azimuth)
        y == distanceFromTarget * Cos(elevation) * TrigScale
        z == distanceFromTarget * Cos(elevation) * Cos(azimuth)
    IN  <<target[1] + x, target[2] + y, target[3] + z>>

CalculateCameraPosition(distanceFromTarget, azimuth, elevation, target) ==
    LET x == distanceFromTarget * Cos(elevation) * Sin(azimuth)
        y == distanceFromTarget * Sin(elevation) * TrigScale
        z == distanceFromTarget * Cos(elevation) * Cos(azimuth)
    IN  <<target[1] + x, target[2] + y, target[3] + z>>

\* The arguments of the model: distances 1, 5 and 20, every azimuth, the
\* elevations short of the poles (cos > 0), two targets.
CalcDistances == {1, 5, 20}
CalcElevations == {a \in Angles : a.cos > 0}
CalcTargets == {<<0, 0, 0>>, <<25, -50, 75>>}

CalcIdle ==
    /\ cpc = "idle"
    /\ argDistance = 0
    /\ argAzimuth = [sin |-> 0, cos |-> TrigScale]
    /\ argElevation = [sin |-> 0, cos |-> TrigScale]
    /\ argTarget = <<0, 0, 0>>
    /\ cameraPos = <<0, 0, 0>>

CalcInit ==
    /\ cpc = "called"
    /\ argDistance \in CalcDistances
    /\ argAzimuth \in Angles
    /\ argElevation \in CalcElevations
    /\ argTarget \in CalcTargets
    /\ cameraPos = <<0, 0, 0>>

Calculate ==
    /\ cpc = "called"
    /\ cameraPos' = CalculateCameraPosition(argDistance, argAzimuth, argElevation, argTarget)
    /\ cpc' = "returned"
    /\ UNCHANGED <<argDistance, argAzimuth, argElevation, argTarget, mainVars, loaderVars>>

(***************************************************************************)
(* The specifications: main; main with its steps taken as long as one is   *)
(* enabled (a sequential program does not stop between statements);        *)
(* LoadObjFile on any file; CalculateCameraPosition on any arguments.      *)
(***************************************************************************)

Init == MainInit /\ LoaderInit /\ CalcIdle
Next == MainNext
Spec == Init /\ [][Next]_vars
FairSpec == Spec /\ WF_vars(Next)

InitLoader == MainInit /\ LoaderInit /\ CalcIdle
NextLoader == LoaderNext
SpecLoader == InitLoader /\ [][NextLoader]_vars

InitCalc == MainInit /\ LoaderInit /\ CalcInit
NextCalc == Calculate
SpecCalc == InitCalc /\ [][NextCalc]_vars

(***************************************************************************)
(* The camera's clamps (ProcessInput in the render loop).                  *)
(***************************************************************************)

\* C1: in every state main reaches the elevation lies within -89 and +89
\* degrees, whatever keys were held (Q and E together too) and however long
\* the frames were; and a call that drives it past a limit with Q alone, or E
\* alone, leaves it exactly at that limit.
C1_ElevationClamped ==
    /\ [](0 - Radians89 <= cameraElevation /\ cameraElevation <= Radians89)
    /\ [][ pc = "input" =>
            /\ ( /\ "Q" \in keys' /\ "E" \notin keys'
                 /\ cameraElevation + cameraRotationSpeed * deltaTime' > Radians89 )
               => cameraElevation' = Radians89
            /\ ( /\ "E" \in keys' /\ "Q" \notin keys'
                 /\ cameraElevation - cameraRotationSpeed * deltaTime' < 0 - Radians89 )
               => cameraElevation' = 0 - Radians89 ]_vars

\* A long frame with Q alone has just driven the elevation to the upper limit.
C1_Witness ==
    /\ pc = "draw"
    /\ keys = {"Q"}
    /\ deltaTime = LongFrame
    /\ cameraElevation = Radians89

\* C2: in every state main reaches the distance lies within 0.5 and 20.0,
\* whatever keys were held (W and S together too) and however long the frames.
C2_DistanceClamped ==
    MinDistance <= cameraDistanceFromTarget /\ cameraDistanceFromTarget <= MaxDistance

\* A long frame with W and S together has just been processed: W clamped the
\* distance to 0.5 and S to 20.0.
C2_Witness ==
    /\ pc = "draw"
    /\ {"W", "S"} \subseteq keys
    /\ deltaTime = LongFrame
    /\ cameraDistanceFromTarget = MaxDistance

C5_SetupFailureIsFatal ==
    /\ exception # "" => pc = "threw" /\ frame = "none"
    /\ pc = "threw" => exception # ""
    /\ exception = "Failed to open OBJ file" => mainVertices = <<>>

\* The OBJ file did not open, with the window up.
C5_Witness ==
    /\ pc = "threw"
    /\ exception = "Failed to open OBJ file"
    /\ windowHandle = "live"

\* C6, as claimed: when main is left, by return or by an exception, nothing
\* that was created is still alive.
C6_AllReleasedAtExit ==
    pc \in {"threw", "exited"} =>
        /\ glfw # "live"
        /\ windowHandle # "live"
        /\ vao # "live"
        /\ vbo # "live"
        /\ vertexShader \notin {"live", "flagged"}
        /\ fragmentShader \notin {"live", "flagged"}
        /\ shaderProgram # "live"

TeardownOrder == <<"glDeleteVertexArrays", "glDeleteBuffers", "glDeleteProgram",
                   "glfwDestroyWindow", "glfwTerminate">>

LoopPcs == {"loop", "input", "draw", "present"}

\* C9: once the should-close flag is set in the render loop (ProcessInput saw
\* Escape, or the window was asked to close), main ends: the ProcessInput call
\* that sees Escape still applies its camera deltas and its frame goes on to
\* be drawn, no frame is started after the flag is set, the flag is never
\* cleared, and main returns with the last frame presented and the tear-down
\* done in the order vertex array, vertex buffer, program, window, GLFW.
C9_EscapeEndsLoop ==
    /\ [][ (pc = "input" /\ "ESCAPE" \in keys') =>
             /\ shouldClose'
             /\ pc' = "draw"
             /\ cameraAzimuth' = AzimuthAfter(cameraAzimuth, keys', deltaTime')
             /\ cameraDistanceFromTarget' =
                  DistanceAfter(cameraDistanceFromTarget, keys', deltaTime')
             /\ cameraElevation' = ElevationAfter(cameraElevation, keys', deltaTime') ]_vars
    /\ [][ shouldClose => shouldClose' ]_vars
    /\ [][ (shouldClose /\ pc \in LoopPcs) => pc' # "input" ]_vars
    /\ [](pc = "exited" => shouldClose /\ frame = "presented" /\ glLog = TeardownOrder)
    /\ (shouldClose /\ pc \in LoopPcs) ~> (pc = "exited")

\* main has returned after a frame in which the flag was set.
C9_Witness ==
    /\ pc = "exited"
    /\ shouldClose
    /\ frame = "presented"
    /\ glLog = TeardownOrder
    /\ cameraDistanceFromTarget = InitialDistance - cameraZoomSpeed * ShortFrame

(***************************************************************************)
(* CalculateCameraPosition.                                                *)
(***************************************************************************)

\* C7: the position returned is the target plus (d cos e sin a, d sin e,
\* d cos e cos a), it lies at distance d from the target, and for d = 5,
\* a = 0, e = 0 and the target at the origin it is (0, 0, 5).  (Positions are
\* in 1/25 of the distance's unit.)
C7_SphericalToCartesian ==
    cpc = "returned" =>
        LET d  == argDistance
            dx == cameraPos[1] - argTarget[1]
            dy == cameraPos[2] - argTarget[2]
            dz == cameraPos[3] - argTarget[3]
        IN  /\ dx = d * argElevation.cos * argAzimuth.sin
            /\ dy = d * argElevation.sin * TrigScale
            /\ dz = d * argElevation.cos * argAzimuth.cos
            /\ dx * dx + dy * dy + dz * dz
                 = (d * TrigScale * TrigScale) * (d * TrigScale * TrigScale)
            /\ ( /\ d = 5 /\ argAzimuth.sin = 0 /\ argAzimuth.cos = TrigScale
                 /\ argElevation.sin = 0 /\ argTarget = <<0, 0, 0>> )
               => cameraPos = <<0, 0, 5 * TrigScale * TrigScale>>

\* The spec's example has been computed.
C7_Witness ==
    /\ cpc = "returned"
    /\ argDistance = 5
    /\ argAzimuth = [sin |-> 0, cos |-> TrigScale]
    /\ argElevation = [sin |-> 0, cos |-> TrigScale]
    /\ argTarget = <<0, 0, 0>>
    /\ cameraPos = <<0, 0, 125>>

(***************************************************************************)
(* LoadObjFile.  What a file says is read off the file itself: a token is  *)
(* well formed when it is FaceToken(P, N) for some P and N, and then       *)
(* refers to the P-th v line and the N-th vn line.                         *)
(***************************************************************************)

WrittenRefs == (0..9) \X (0..9)

WrittenToken == [pn \in WrittenRefs |-> FaceToken(pn[1], pn[2])]

WellFormedToken(tok) == \E pn \in WrittenRefs : tok = WrittenToken[pn]

RefOf(tok) == CHOOSE pn \in WrittenRefs : tok = WrittenToken[pn]

\* The number of lines with prefix w before line k.
CountBefore(file, k, w) == Cardinality({j \in 1..(k - 1) : file[j].prefix = w})

\* The n-th line with prefix w.
NthLine(file, w, n) ==
    file[CHOOSE j \in 1..Len(file) : file[j].prefix = w /\ CountBefore(file, j, w) = n - 1]

TokenInRange(file, k, tok) ==
    /\ WellFormedToken(tok)
    /\ RefOf(tok)[1] \in 1..CountBefore(file, k, "v")
    /\ RefOf(tok)[2] \in 1..CountBefore(file, k, "vn")

\* Line k is an f line of three or more tokens, all well formed and in range.
FaceInRange(file, k) ==
    /\ Len(file[k].args) >= 3
    /\ \A i \in 1..Len(file[k].args) : TokenInRange(file, k, file[k].args[i])

\* Line k is an f line whose first three words are well-formed tokens, one of
\* them with an index that is 0 or beyond the v (vn) lines before line k.
FaceOutOfRange(file, k) ==
    /\ file[k].prefix = "f"
    /\ Len(file[k].args) >= 3
    /\ \A i \in 1..3 : WellFormedToken(file[k].args[i])
    /\ \E i \in 1..3 : ~TokenInRange(file, k, file[k].args[i])

\* Line k is an f line one of whose first three words is missing or is no
\* well-formed token.
FaceMalformed(file, k) ==
    /\ file[k].prefix = "f"
    /\ \E i \in 1..3 : ~WellFormedToken(Word(file[k].args, i))

VertexOf(file, tok) ==
    [position |-> NthLine(file, "v", RefOf(tok)[1]).vec,
     normal   |-> NthLine(file, "vn", RefOf(tok)[2]).vec]

\* The vertices lines 1..k of a file ask for.
RECURSIVE VerticesOf(_, _)
VerticesOf(file, k) ==
    IF k = 0 THEN <<>>
    ELSE VerticesOf(file, k - 1) \o
         ( IF file[k].prefix = "f"
           THEN << VertexOf(file, file[k].args[1]), VertexOf(file, file[k].args[2]),
                   VertexOf(file, file[k].args[3]) >>
           ELSE <<>> )

\* C3: while every f line read so far has well-formed tokens with indices in
\* range of the v and vn lines before it, LoadObjFile has not failed and its
\* vertices are exactly three for each f line, in file order and token order,
\* each with the position of the P-th v line and the normal of the N-th vn
\* line of its token.
C3_FacesResolved ==
    ( /\ lstatus \notin {"init", "open_failed"}
      /\ \A k \in 1..Len(lines) : lines[k].prefix = "f" => FaceInRange(lines, k) )
    => /\ lstatus \in {"reading", "done"}
       /\ Len(vertices) = 3 * Cardinality({k \in 1..Len(lines) : lines[k].prefix = "f"})
       /\ vertices = VerticesOf(lines, Len(lines))

\* The example file has been loaded: 12 vertices.
C3_Witness ==
    /\ lstatus = "done"
    /\ lines = ExampleFile
    /\ Len(vertices) = 12

\* C4, as claimed: an f line with an index that is 0 or out of range makes
\* LoadObjFile fail with a bounds error, and no vertex holds an element that
\* is not of the positions or normals read.
C4_BoundsError ==
    (\E k \in 1..Len(lines) : FaceOutOfRange(lines, k))
    => /\ lstatus = "bounds_error"
       /\ \A i \in 1..Len(vertices) :
            vertices[i].position # GARBAGE /\ vertices[i].normal # GARBAGE

\* C8, as claimed: an f line with a malformed token makes LoadObjFile fail with
\* a numeric-conversion error.  (Stated for the runs without undefined
\* behaviour, so that what refutes it is the parsing of the token alone.)
C8_MalformedTokenFails ==
    ( /\ \E k \in 1..Len(lines) : FaceMalformed(lines, k)
      /\ lstatus \notin {"ub_crash", "ub_garbage"} )
    => lstatus \in {"invalid_argument", "out_of_range"}

====
